---- MODULE Spec2Model ----
(***************************************************************************)
(* A model of ppt_analyzer.py: main() runs extract_pptx_content, then      *)
(* analyze_slides (prompt assembly, the retry loop around the model call,  *)
(* the brace-scanning JSON parser) and finally writes the report.          *)
(*                                                                         *)
(* Strings are sequences of tokens.  The deck is revealed shape by shape   *)
(* while the extractor iterates over it, the model service answers a call  *)
(* when the call is made.                                                  *)
(***************************************************************************)
EXTENDS Integers, Sequences, FiniteSets, TLC

\* ---------------------------------------------------------------- bounds
MaxSlides == 2          \* most slides in a deck
MaxShapes == 3          \* most shapes in a deck, title placeholders included
MaxProse == 2           \* most tokens in a reply that is prose only

\* ------------------------------------------------------ program constants
MaxAttempts == 3        \* range(3)
BaseDelay == 10         \* 10 * (2 ** attempt)
MaxJitter == 5          \* random.uniform(0, 5)

VARIABLES
    pc,             \* position of the single thread of control
    n_slides,       \* len(prs.slides)
    i,              \* enumerate index of the slide being processed
    title_pending,  \* the slide's title placeholder is still ahead in slide.shapes
    n_shapes,       \* shapes of the deck met so far
    content,        \* fragments of the current slide
    slide_data,     \* the dict, as its insertion-ordered list of <<key, value>>
    tmp,            \* tmp.name of the picture being processed (0: none)
    tmp_made,       \* temporary files created so far
    tmp_files,      \* temporary files that exist on disk
    full_content,   \* the assembled prompt body
    attempt,        \* loop variable of the retry loop
    calls,          \* outcome of every MODEL.generate_content call, in order
    sleeps,         \* argument of every time.sleep call, in order
    response_text,  \* response.text of the reply received
    served,         \* the reply as the service made it: <<kind, value to return>>
    debug_file,     \* content of gemini_response.txt
    inconsistencies,\* value analyze_slides returned to main
    out_file,       \* reports written to args.output
    stdout,         \* reports printed
    log             \* log records <<level, message, <<numbers>>>>

vars == <<pc, n_slides, i, title_pending, n_shapes, content, slide_data, tmp,
          tmp_made, tmp_files, full_content, attempt, calls, sleeps,
          response_text, served, debug_file, inconsistencies, out_file, stdout, log>>

extractVars == <<n_slides, i, title_pending, n_shapes, content, slide_data,
                 tmp, tmp_made, tmp_files>>
analyzeVars == <<full_content, attempt, calls, sleeps, response_text, served,
                 debug_file, inconsistencies>>
reportVars == <<out_file, stdout>>

\* ------------------------------------------------------------ strings
RECURSIVE Join(_, _)
\* sep.join(parts): parts are strings (token sequences), sep is a string
Join(parts, sep) ==
    IF parts = <<>> THEN <<>>
    ELSE IF Len(parts) = 1 THEN parts[1]
    ELSE parts[1] \o sep \o Join(Tail(parts), sep)

NL == <<"\n">>
Digits == <<"1", "2", "3", "4", "5", "6", "7", "8", "9">>

\* --------------------------------------------------------------- dict
Keys(d) == [k \in 1..Len(d) |-> d[k][1]]
HasKey(d, key) == \E k \in 1..Len(d) : d[k][1] = key
\* d[key] = value: an existing key keeps its place, a new one goes last
DictSet(d, key, value) ==
    IF HasKey(d, key)
    THEN [k \in 1..Len(d) |-> IF d[k][1] = key THEN <<key, value>> ELSE d[k]]
    ELSE Append(d, <<key, value>>)
DictGet(d, key) == (CHOOSE k \in 1..Len(d) : d[k][1] = key)

\* ------------------------------------------------------------ JSON values
\* a decoded JSON value is <<tag, payload>>; an object's payload is its
\* insertion-ordered list of <<key, value>>, an array's its list of values
Num == <<"num", <<"1">>>>
Str(s) == <<"str", <<s>>>>
Arr(elems) == <<"arr", elems>>
Obj(members) == <<"obj", members>>
EmptyList == Arr(<<>>)
StringLiterals == {"inconsistencies", "type", "severity", "H"}

\* len(v): a number has no len(); a string literal is one token, and the only
\* string the replies carry as a value is the one-character "H"
HasLen(v) == v[1] # "num"
PyLen(v) == Len(v[2])

\* str.find / str.rfind of one character: 0-based index, -1 when absent
Find(s, ch) ==
    IF \E k \in 1..Len(s) : s[k] = ch
    THEN (CHOOSE k \in 1..Len(s) : s[k] = ch /\ \A m \in 1..(k - 1) : s[m] # ch) - 1
    ELSE -1
\* faulty variant: find in place of rfind
RFind_First(s, ch) == Find(s, ch)
RFind(s, ch) ==
    IF \E k \in 1..Len(s) : s[k] = ch
    THEN (CHOOSE k \in 1..Len(s) : s[k] = ch /\ \A m \in (k + 1)..Len(s) : s[m] # ch) - 1
    ELSE -1
\* s[a:b] for 0 <= a, 0 <= b
Slice(s, a, b) ==
    LET hi == IF b > Len(s) THEN Len(s) ELSE b
    IN  IF a >= hi THEN <<>> ELSE [k \in 1..(hi - a) |-> s[a + k]]

\* json.loads: a recursive-descent decoder over the tokens.  Each Parse
\* operator returns <<ok, value, position after the value>>.
Failed == <<FALSE, <<>>, 0>>
RECURSIVE SkipWs(_, _)
SkipWs(s, p) == IF p <= Len(s) /\ s[p] = " " THEN SkipWs(s, p + 1) ELSE p
At(s, p, tok) == p <= Len(s) /\ s[p] = tok

RECURSIVE ParseValue(_, _)
RECURSIVE ParseElements(_, _, _)
RECURSIVE ParseMembers(_, _, _)

ParseValue(s, p0) ==
    LET p == SkipWs(s, p0)
    IN  IF p > Len(s) THEN Failed
        ELSE IF s[p] = "1" THEN <<TRUE, Num, p + 1>>
        ELSE IF s[p] \in StringLiterals THEN <<TRUE, Str(s[p]), p + 1>>
        ELSE IF s[p] = "[" THEN
            LET q == SkipWs(s, p + 1)
            IN  IF At(s, q, "]") THEN <<TRUE, Arr(<<>>), q + 1>>
                ELSE ParseElements(s, q, <<>>)
        ELSE IF s[p] = "{" THEN
            LET q == SkipWs(s, p + 1)
            IN  IF At(s, q, "}") THEN <<TRUE, Obj(<<>>), q + 1>>
                ELSE ParseMembers(s, q, <<>>)
        ELSE Failed

\* the elements of an array after "[", up to and including "]"
ParseElements(s, p, acc) ==
    LET r == ParseValue(s, p)
    IN  IF ~r[1] THEN Failed
        ELSE LET q == SkipWs(s, r[3])
             IN  IF At(s, q, ",") THEN ParseElements(s, q + 1, Append(acc, r[2]))
                 ELSE IF At(s, q, "]") THEN <<TRUE, Arr(Append(acc, r[2])), q + 1>>
                 ELSE Failed

\* the members of an object after "{", up to and including "}";
\* a repeated key keeps its place and takes the later value, as in a dict
ParseMembers(s, p0, acc) ==
    LET p == SkipWs(s, p0)
    IN  IF ~(p <= Len(s) /\ s[p] \in StringLiterals) THEN Failed
        ELSE LET c == SkipWs(s, p + 1)
             IN  IF ~At(s, c, ":") THEN Failed
                 ELSE LET r == ParseValue(s, c + 1)
                      IN  IF ~r[1] THEN Failed
                          ELSE LET q == SkipWs(s, r[3])
                                   d == DictSet(acc, s[p], r[2])
                               IN  IF At(s, q, ",") THEN ParseMembers(s, q + 1, d)
                                   ELSE IF At(s, q, "}") THEN <<TRUE, Obj(d), q + 1>>
                                   ELSE Failed

\* faulty variant: the first value is decoded and what follows it ignored
JsonLoads_IgnoresRest(s) ==
    LET r == ParseValue(s, 1)
    IN  IF r[1] THEN <<TRUE, r[2]>> ELSE <<FALSE, <<>>>>

\* json.loads(s): one value, nothing but whitespace after it
JsonLoads(s) ==
    LET r == ParseValue(s, 1)
    IN  IF r[1] /\ SkipWs(s, r[3]) > Len(s) THEN <<TRUE, r[2]>> ELSE <<FALSE, <<>>>>

\* data.get(key, default) on a decoded object
Get(obj, key, default) ==
    IF HasKey(obj[2], key) THEN obj[2][DictGet(obj[2], key)][2] ELSE default

\* lines 154-170 and the except clause of line 176 for len() of a number:
\* <<branch taken, value returned>>
ParseReply(text) ==
    LET start_idx == Find(text, "{")
        end_idx == RFind(text, "}")
        json_str == Slice(text, start_idx, end_idx + 1)
        data == JsonLoads(json_str)
        found == Get(data[2], "inconsistencies", EmptyList)
    IN  IF start_idx = -1 \/ end_idx = -1 THEN <<"no_json", EmptyList>>
        ELSE IF ~data[1] THEN <<"decode_error", EmptyList>>
        ELSE IF ~HasLen(found) THEN <<"api_error", EmptyList>>
        ELSE <<"found", found>>

\* "\n\n".join(f"--- SLIDE {num} ---\n{content}" for num, content in items())
Assemble(d) ==
    Join([k \in 1..Len(d) |->
            <<"--- SLIDE ", Digits[d[k][1]], " ---", "\n">> \o d[k][2]],
         <<"\n\n">>)

Logged(level, msg, nums) == log' = Append(log, <<level, msg, nums>>)

\* ==================================================== extract_pptx_content
\* faulty variant: the failure is logged and an empty mapping returned
OpenFails_Swallowed ==
    /\ pc = "open"
    /\ pc' = "analyze"
    /\ Logged("ERROR", "Extraction failed", <<>>)
    /\ UNCHANGED <<extractVars, analyzeVars, reportVars>>

\* Presentation(pptx_path) fails: logged, re-raised, main() does not catch it
OpenFails ==
    /\ pc = "open"
    /\ pc' = "aborted"
    /\ Logged("ERROR", "Extraction failed", <<>>)
    /\ UNCHANGED <<extractVars, analyzeVars, reportVars>>

OpenPresentation ==
    /\ pc = "open"
    /\ \E n \in 0..MaxSlides : n_slides' = n
    /\ i' = 0
    /\ slide_data' = <<>>
    /\ pc' = "slides"
    /\ Logged("INFO", "Presentation contains slides", <<n_slides'>>)
    /\ UNCHANGED <<title_pending, n_shapes, content, tmp, tmp_made, tmp_files,
                   analyzeVars, reportVars>>

\* next slide of the for loop; title is the state of slide.shapes.title:
\* "none" (no placeholder), "blank" (its text strips to ""), "text"
BeginSlide ==
    /\ pc = "slides"
    /\ i < n_slides
    /\ \E title \in {"none", "blank", "text"} :
        /\ title # "none" => n_shapes < MaxShapes
        /\ n_shapes' = IF title = "none" THEN n_shapes ELSE n_shapes + 1
        /\ title_pending' = (title # "none")
        /\ content' = IF title = "text" THEN << <<"TITLE: ", "t">> >> ELSE <<>>
    /\ pc' = "shapes"
    /\ UNCHANGED <<n_slides, i, slide_data, tmp, tmp_made, tmp_files,
                   analyzeVars, reportVars, log>>

\* shape == slide.shapes.title: continue
SkipTitleShape ==
    /\ pc = "shapes"
    /\ title_pending
    /\ title_pending' = FALSE
    /\ UNCHANGED <<pc, n_slides, i, n_shapes, content, slide_data, tmp, tmp_made,
                   tmp_files, analyzeVars, reportVars, log>>

\* a shape with a text frame; text is the " | " join of its non-empty paragraphs
TextShape ==
    /\ pc = "shapes"
    /\ n_shapes < MaxShapes
    /\ n_shapes' = n_shapes + 1
    /\ \E text \in {<<>>, <<"x", " | ", "y">>} :
        content' = IF text # <<>> THEN Append(content, text) ELSE content
    /\ UNCHANGED <<pc, n_slides, i, title_pending, slide_data, tmp, tmp_made,
                   tmp_files, analyzeVars, reportVars, log>>

\* a shape with a table: always one fragment, also for a table without rows
TableShape ==
    /\ pc = "shapes"
    /\ n_shapes < MaxShapes
    /\ n_shapes' = n_shapes + 1
    /\ \E rows \in {<<>>, << <<"a", " | ", "b">>, <<"1", " | ", "2">> >>} :
        content' = Append(content, <<"TABLE: ">> \o Join(rows, NL))
    /\ UNCHANGED <<pc, n_slides, i, title_pending, slide_data, tmp, tmp_made,
                   tmp_files, analyzeVars, reportVars, log>>

\* a shape that has no text frame, no table and is no picture
OtherShape ==
    /\ pc = "shapes"
    /\ n_shapes < MaxShapes
    /\ n_shapes' = n_shapes + 1
    /\ UNCHANGED <<pc, n_slides, i, title_pending, content, slide_data, tmp,
                   tmp_made, tmp_files, analyzeVars, reportVars, log>>

\* shape_type == 13: NamedTemporaryFile(suffix=".png", delete=False)
PictureShape ==
    /\ pc = "shapes"
    /\ n_shapes < MaxShapes
    /\ n_shapes' = n_shapes + 1
    /\ tmp_made' = tmp_made + 1
    /\ tmp' = tmp_made'
    /\ tmp_files' = tmp_files \cup {tmp'}
    /\ pc' = "save"
    /\ UNCHANGED <<n_slides, i, title_pending, content, slide_data,
                   analyzeVars, reportVars, log>>

\* shape.image.save(tmp.name), inside the with block and before the try
SaveImage ==
    /\ pc = "save"
    /\ pc' = "ocr"
    /\ UNCHANGED <<extractVars, analyzeVars, reportVars, log>>

\* the save raises: the with block closes the file (delete=False keeps it),
\* the function's except clause logs and re-raises
SaveImageFails ==
    /\ pc = "save"
    /\ pc' = "aborted"
    /\ Logged("ERROR", "Extraction failed", <<>>)
    /\ UNCHANGED <<extractVars, analyzeVars, reportVars>>

\* Image.open and image_to_string return; ocr_text is the stripped text
OcrImage ==
    /\ pc = "ocr"
    /\ \E ocr_text \in {<<>>, <<"o">>} :
        content' = IF ocr_text # <<>>
                   THEN Append(content, <<"IMAGE: ">> \o ocr_text)
                   ELSE content
    /\ pc' = "finally"
    /\ UNCHANGED <<n_slides, i, title_pending, n_shapes, slide_data, tmp,
                   tmp_made, tmp_files, analyzeVars, reportVars, log>>

\* faulty variant: the OCR failure is not caught inside the loop; the finally
\* clause still unlinks the file and the function's except clause re-raises
OcrFails_Propagates ==
    /\ pc = "ocr"
    /\ tmp_files' = tmp_files \ {tmp}
    /\ Logged("ERROR", "Extraction failed", <<>>)
    /\ pc' = "aborted"
    /\ UNCHANGED <<n_slides, i, title_pending, n_shapes, content, slide_data, tmp,
                   tmp_made, analyzeVars, reportVars>>

\* Image.open or image_to_string raises: except Exception logs a warning
OcrFails ==
    /\ pc = "ocr"
    /\ Logged("WARNING", "OCR error on slide", <<i + 1>>)
    /\ pc' = "finally"
    /\ UNCHANGED <<extractVars, analyzeVars, reportVars>>

\* finally: os.unlink(tmp.name)
UnlinkTmp ==
    /\ pc = "finally"
    /\ tmp_files' = tmp_files \ {tmp}
    /\ tmp' = 0
    /\ pc' = "shapes"
    /\ UNCHANGED <<n_slides, i, title_pending, n_shapes, content, slide_data,
                   tmp_made, analyzeVars, reportVars, log>>

\* faulty variant: a slide without fragments gets no entry
EndSlide_SkipsEmpty ==
    /\ pc = "shapes"
    /\ ~title_pending
    /\ slide_data' = IF content # <<>>
                      THEN DictSet(slide_data, i + 1, Join(content, NL))
                      ELSE slide_data
    /\ Logged("INFO", "Extracted elements from slide", <<Len(content), i + 1>>)
    /\ i' = i + 1
    /\ content' = <<>>
    /\ pc' = "slides"
    /\ UNCHANGED <<n_slides, title_pending, n_shapes, tmp, tmp_made, tmp_files,
                   analyzeVars, reportVars>>

\* slide_data[slide_num] = "\n".join(content)
EndSlide ==
    /\ pc = "shapes"
    /\ ~title_pending
    /\ slide_data' = DictSet(slide_data, i + 1, Join(content, NL))
    /\ Logged("INFO", "Extracted elements from slide", <<Len(content), i + 1>>)
    /\ i' = i + 1
    /\ content' = <<>>
    /\ pc' = "slides"
    /\ UNCHANGED <<n_slides, title_pending, n_shapes, tmp, tmp_made, tmp_files,
                   analyzeVars, reportVars>>

\* return slide_data; main logs the slide count
ReturnSlideData ==
    /\ pc = "slides"
    /\ i >= n_slides
    /\ pc' = "analyze"
    /\ Logged("INFO", "Extracted content from slides", <<Len(slide_data)>>)
    /\ UNCHANGED <<extractVars, analyzeVars, reportVars>>

\* ======================================================= the model service
\* json.dumps of a value as tokens; the service's side of the reply
RECURSIVE Encode(_)
Encode(v) ==
    IF v[1] = "num" \/ v[1] = "str" THEN v[2]
    ELSE IF v[1] = "arr"
    THEN <<"[">> \o Join([k \in 1..Len(v[2]) |-> Encode(v[2][k])], <<",">>) \o <<"]">>
    ELSE <<"{">> \o Join([k \in 1..Len(v[2]) |->
                            <<v[2][k][1], ":">> \o Encode(v[2][k][2])], <<",">>)
                 \o <<"}">>
\* the same document pretty-printed: whitespace between the tokens
Spaced(s) == Join([k \in 1..Len(s) |-> <<s[k]>>], <<" ">>)

Finding1 == Obj(<< <<"type", Num>>, <<"severity", Str("H")>> >>)
Finding2 == Obj(<< <<"severity", Str("H")>> >>)
\* inconsistencies arrays: empty, one record, two records in both orders,
\* a malformed record
FindingLists == {<<>>, <<Finding1>>, <<Finding1, Finding2>>, <<Finding2, Finding1>>,
                 <<Num>>, <<Finding2, Num, Finding2>>}
\* <<document, value analyze_slides is to return for it>>:
\* the inconsistencies field is an array
ListDocs ==
    {<<Obj(<< <<"inconsistencies", Arr(l)>> >>), Arr(l)>> : l \in FindingLists}
    \cup {<<Obj(<< <<"type", Num>>, <<"inconsistencies", Arr(<<Finding1>>)>> >>),
            Arr(<<Finding1>>)>>,
          <<Obj(<< <<"inconsistencies", Arr(<<Finding2>>)>>, <<"severity", Num>> >>),
            Arr(<<Finding2>>)>>}
\* the inconsistencies field is absent
NoFieldDocs == {<<Obj(<<>>), EmptyList>>,
                <<Obj(<< <<"type", Str("H")>> >>), EmptyList>>}
\* the inconsistencies field is no array: len() of a number raises inside the
\* try block, a string or an object has a len() and is returned as it is
OddDocs == {<<Obj(<< <<"inconsistencies", Num>> >>), EmptyList>>,
            <<Obj(<< <<"inconsistencies", Str("H")>> >>), Str("H")>>,
            <<Obj(<< <<"inconsistencies", Finding1>> >>), Finding1>>}

\* prose around the document; it holds no brace
Wrappers == {<< <<>>, <<>> >>, << <<"Here", "is">>, <<"Thanks">> >>,
             << <<"Here">>, <<>> >>, << <<>>, <<"[", "1", "]">> >>}

\* replies are <<kind, value to return, text>>
Wrapped(kind, docs) ==
    {<<kind, d[2], w[1] \o Encode(d[1]) \o w[2]>> : d \in docs, w \in Wrappers}
    \cup {<<kind, d[2], <<"Here">> \o Spaced(Encode(d[1]))>> : d \in docs}
ValidReplies ==
    Wrapped("list", ListDocs) \cup Wrapped("no_field", NoFieldDocs)
    \cup Wrapped("odd", OddDocs)

ProseTokens == {"{", "}", "Here", "1"}
ProseTexts == UNION {[1..n -> ProseTokens] : n \in 0..MaxProse}
NoBraceReplies ==
    {<<"no_brace", EmptyList, t>> :
        t \in {u \in ProseTexts : (\A k \in 1..Len(u) : u[k] # "{")
                                  \/ (\A k \in 1..Len(u) : u[k] # "}")}}

\* both braces are there and what they enclose is no JSON document
UndecodableTexts ==
    { <<"}", "{">>,
      <<"Here", "}", "and", "{">>,
      <<"{", "Here", "}">>,
      <<"{", "inconsistencies", ":", "[", "}">>,
      <<"{", "inconsistencies", "[", "]", "}">>,
      <<"{", "inconsistencies", ":", "[", "1", ",", "]", "}">>,
      <<"{", "inconsistencies", ":", "[", "{", "type", ":", "1", "}", "]">>,
      <<"{", "}", "{", "}">>,
      <<"{", "}", "Here", "{", "inconsistencies", ":", "[", "1", "]", "}">>,
      <<"see", "{", "here", "{", "inconsistencies", ":", "[", "1", "]", "}">>,
      <<"{", "inconsistencies", ":", "[", "1", "]", "}", "}">>,
      <<"{", "inconsistencies", ":", "[", "1", "]", "}", "Here", "}">>,
      <<"{", "1", ":", "1", "}">>,
      <<"{", "type", ":", "1", ",", "}">> }
UndecodableReplies == {<<"undecodable", EmptyList, t>> : t \in UndecodableTexts}

AllReplies == ValidReplies \cup NoBraceReplies \cup UndecodableReplies
BasicReplies ==
    {<<"list", Arr(<<Finding1>>),
       <<"Here">> \o Encode(Obj(<< <<"inconsistencies", Arr(<<Finding1>>)>> >>))>>,
     <<"no_brace", EmptyList, <<"Here">>>>}

\* The whole range of replies and jitters is explored for the decks without
\* shapes, the other decks meet the basic ones.
Replies == IF n_shapes = 0 THEN AllReplies ELSE BasicReplies
Jitters == IF n_shapes = 0 THEN 0..MaxJitter ELSE {MaxJitter}

RECURSIVE Pow2(_)
Pow2(n) == IF n = 0 THEN 1 ELSE 2 * Pow2(n - 1)
\* faulty variant: the delay does not grow with the attempt
Wait_Constant(att, jitter) == BaseDelay + jitter

\* 10 * (2 ** attempt) + random.uniform(0, 5)
Wait(att, jitter) == BaseDelay * Pow2(att) + jitter

\* ========================================================== analyze_slides
AssemblePrompt ==
    /\ pc = "analyze"
    /\ full_content' = Assemble(slide_data)
    /\ attempt' = 0
    /\ pc' = "attempt"
    /\ log' = log \o << <<"INFO", "Analyzing for inconsistencies", <<>>>>,
                        <<"INFO", "Sending content to Gemini", <<>>>> >>
    /\ UNCHANGED <<extractVars, calls, sleeps, response_text, served, debug_file,
                   inconsistencies, reportVars>>

\* faulty variant: no sleep after the last attempt
CallRateLimited_NoLastSleep ==
    /\ pc = "attempt"
    /\ attempt < MaxAttempts
    /\ calls' = Append(calls, "rate_limit")
    /\ \E jitter \in Jitters :
        /\ sleeps' = IF attempt + 1 < MaxAttempts
                      THEN Append(sleeps, Wait(attempt, jitter))
                      ELSE sleeps
        /\ log' = log \o << <<"INFO", "API attempt", <<attempt + 1>>>>,
                            <<"WARNING", "API quota exceeded", <<Wait(attempt, jitter)>>>> >>
    /\ attempt' = attempt + 1
    /\ UNCHANGED <<pc, extractVars, full_content, response_text, served, debug_file,
                   inconsistencies, reportVars>>

\* generate_content raises ResourceExhausted: compute the wait, log, sleep,
\* next iteration
CallRateLimited ==
    /\ pc = "attempt"
    /\ attempt < MaxAttempts
    /\ calls' = Append(calls, "rate_limit")
    /\ \E jitter \in Jitters :
        /\ sleeps' = Append(sleeps, Wait(attempt, jitter))
        /\ log' = log \o << <<"INFO", "API attempt", <<attempt + 1>>>>,
                            <<"WARNING", "API quota exceeded", <<Wait(attempt, jitter)>>>> >>
    /\ attempt' = attempt + 1
    /\ UNCHANGED <<pc, extractVars, full_content, response_text, served, debug_file,
                   inconsistencies, reportVars>>

\* faulty variant: any other failure is retried like a rate-limit error
CallFails_Retried ==
    /\ pc = "attempt"
    /\ attempt < MaxAttempts
    /\ calls' = Append(calls, "error")
    /\ log' = log \o << <<"INFO", "API attempt", <<attempt + 1>>>>,
                        <<"ERROR", "API error", <<>>>> >>
    /\ attempt' = attempt + 1
    /\ UNCHANGED <<pc, extractVars, full_content, sleeps, response_text, served,
                   debug_file, inconsistencies, reportVars>>

\* generate_content raises anything else: return []
CallFails ==
    /\ pc = "attempt"
    /\ attempt < MaxAttempts
    /\ calls' = Append(calls, "error")
    /\ log' = log \o << <<"INFO", "API attempt", <<attempt + 1>>>>,
                        <<"ERROR", "API error", <<>>>> >>
    /\ inconsistencies' = EmptyList
    /\ pc' = "report"
    /\ UNCHANGED <<extractVars, full_content, attempt, sleeps, response_text, served,
                   debug_file, reportVars>>

\* generate_content returns; the raw text goes to gemini_response.txt
CallReplies ==
    /\ pc = "attempt"
    /\ attempt < MaxAttempts
    /\ calls' = Append(calls, "reply")
    /\ \E r \in Replies :
        /\ served' = <<r[1], r[2]>>
        /\ response_text' = r[3]
        /\ debug_file' = r[3]
    /\ log' = log \o << <<"INFO", "API attempt", <<attempt + 1>>>>,
                        <<"INFO", "Received response from Gemini API", <<>>>> >>
    /\ pc' = "parse"
    /\ UNCHANGED <<extractVars, full_content, attempt, sleeps, inconsistencies,
                   reportVars>>

\* faulty variant: running out of attempts raises out of analyze_slides
Exhausted_Raises ==
    /\ pc = "attempt"
    /\ attempt >= MaxAttempts
    /\ Logged("ERROR", "API call failed after 3 attempts", <<>>)
    /\ pc' = "aborted"
    /\ UNCHANGED <<extractVars, analyzeVars, reportVars>>

\* the for loop ran out
Exhausted ==
    /\ pc = "attempt"
    /\ attempt >= MaxAttempts
    /\ Logged("ERROR", "API call failed after 3 attempts", <<>>)
    /\ inconsistencies' = EmptyList
    /\ pc' = "report"
    /\ UNCHANGED <<extractVars, full_content, attempt, calls, sleeps, response_text,
                   served, debug_file, reportVars>>

LogOf(parsed) ==
    IF parsed[1] = "no_json" THEN <<"ERROR", "No JSON found in response", <<>>>>
    ELSE IF parsed[1] = "decode_error" THEN <<"ERROR", "JSON decode error", <<>>>>
    ELSE IF parsed[1] = "api_error" THEN <<"ERROR", "API error", <<>>>>
    ELSE <<"INFO", "Found inconsistencies in response", <<PyLen(parsed[2])>>>>

\* lines 154-170: every branch returns from analyze_slides
ParseResponse ==
    /\ pc = "parse"
    /\ LET parsed == ParseReply(response_text)
       IN  /\ inconsistencies' = parsed[2]
           /\ log' = Append(log, LogOf(parsed))
    /\ pc' = "report"
    /\ UNCHANGED <<extractVars, full_content, attempt, calls, sleeps, response_text,
                   served, debug_file, reportVars>>

\* ==================================================================== main
\* the report without its timestamp
Output == [total_slides |-> Len(slide_data),
           issues_found |-> PyLen(inconsistencies),
           inconsistencies |-> inconsistencies]

WriteReport ==
    /\ pc = "report"
    /\ \E to_file \in BOOLEAN :
        IF to_file
        THEN out_file' = Append(out_file, Output) /\ UNCHANGED stdout
        ELSE stdout' = Append(stdout, Output) /\ UNCHANGED out_file
    /\ log' = log \o << <<"INFO", "Found potential inconsistencies", <<PyLen(inconsistencies)>>>>,
                        <<"INFO", "Analysis complete", <<>>>> >>
    /\ pc' = "done"
    /\ UNCHANGED <<extractVars, analyzeVars>>

Init ==
    /\ pc = "open"
    /\ n_slides = 0
    /\ i = 0
    /\ title_pending = FALSE
    /\ n_shapes = 0
    /\ content = <<>>
    /\ slide_data = <<>>
    /\ tmp = 0
    /\ tmp_made = 0
    /\ tmp_files = {}
    /\ full_content = <<>>
    /\ attempt = 0
    /\ calls = <<>>
    /\ sleeps = <<>>
    /\ response_text = <<>>
    /\ served = <<"none", EmptyList>>
    /\ debug_file = <<>>
    /\ inconsistencies = <<"arr", <<>>>>
    /\ out_file = <<>>
    /\ stdout = <<>>
    /\ log = <<>>

Next ==
    \/ OpenFails
    \/ OpenPresentation
    \/ BeginSlide
    \/ SkipTitleShape
    \/ TextShape
    \/ TableShape
    \/ OtherShape
    \/ PictureShape
    \/ SaveImage
    \/ SaveImageFails
    \/ OcrImage
    \/ OcrFails
    \/ UnlinkTmp
    \/ EndSlide
    \/ ReturnSlideData
    \/ AssemblePrompt
    \/ CallRateLimited
    \/ CallFails
    \/ CallReplies
    \/ Exhausted
    \/ ParseResponse
    \/ WriteReport

Spec == Init /\ [][Next]_vars
\* ================================================================= claims
ExtractReturned == pc \in {"analyze", "attempt", "parse", "report", "done"}
AnalyzeReturned == pc \in {"report", "done"}
HasLog(level, msg) == \E k \in 1..Len(log) : log[k][1] = level /\ log[k][2] = msg
ExtractionFailed == HasLog("ERROR", "Extraction failed")
Count(seq, x) == Cardinality({k \in 1..Len(seq) : seq[k] = x})
Reports == out_file \o stdout

\* C1: the model service is called at most 3 times, and every call but the
\* last one failed with a rate-limit error: a reply or any other failure is
\* the last call of the run.
C1_CallsOnlyAfterRateLimit ==
    /\ Len(calls) <= 3
    /\ \A k \in 1..(Len(calls) - 1) : calls[k] = "rate_limit"
    /\ Len(calls) = Count(log, <<"INFO", "API attempt", <<1>>>>)
                    + Count(log, <<"INFO", "API attempt", <<2>>>>)
                    + Count(log, <<"INFO", "API attempt", <<3>>>>)
C1_Witness ==
    /\ pc = "done"
    /\ calls = <<"rate_limit", "rate_limit", "reply">>

\* C2: rate-limit errors on attempts 1 and 2 and a reply on attempt 3 give
\* exactly 2 sleeps, of 10 + [0, 5] and then 20 + [0, 5] seconds, strictly
\* increasing, and analyze_slides returns what the reply carries.
C2_TwoSleepsThenResult ==
    (AnalyzeReturned /\ calls = <<"rate_limit", "rate_limit", "reply">>)
    => /\ Len(sleeps) = 2
       /\ sleeps[1] - 10 \in 0..5
       /\ sleeps[2] - 20 \in 0..5
       /\ sleeps[1] < sleeps[2]
       /\ inconsistencies = served[2]
C2_Witness ==
    /\ pc = "done"
    /\ calls = <<"rate_limit", "rate_limit", "reply">>
    /\ sleeps = <<15, 20>>
    /\ served[1] = "list"
    /\ PyLen(inconsistencies) = 2

DegradedRun ==
    \/ calls = <<"rate_limit", "rate_limit", "rate_limit">>
    \/ (calls # <<>> /\ calls[Len(calls)] = "error")
    \/ served[1] \in {"no_brace", "undecodable"}

Stage ==
    CASE pc \in {"open", "slides", "shapes", "save", "ocr", "finally"} -> 1
      [] pc = "analyze" -> 2
      [] pc = "attempt" -> 3
      [] pc = "parse" -> 4
      [] pc = "report" -> 5
      [] pc = "done" -> 6
      [] OTHER -> 0

\* C4: the stages follow one another in the order Extracting, Assembling,
\* Calling, Parsing, Reporting (Parsing is passed over when no reply came),
\* each starting from the complete output of the one before; a failure of
\* the extraction ends the run at once: the model is never called, nothing
\* is written to the output file or to standard output, no step follows.
C4_StagesInOrder ==
    /\ [](ExtractionFailed =>
            pc = "aborted" /\ calls = <<>> /\ Reports = <<>> /\ full_content = <<>>)
    /\ [](Stage >= 2 => Keys(slide_data) = [k \in 1..n_slides |-> k])
    /\ [](Stage >= 3 => full_content = Assemble(slide_data))
    /\ [](Stage = 4 => calls # <<>> /\ calls[Len(calls)] = "reply")
    /\ [][pc # "aborted"]_vars
    /\ [][pc' = "aborted" => Stage = 1]_vars
    /\ [][pc' # "aborted" =>
            \/ Stage' = Stage
            \/ Stage' = Stage + 1
            \/ (Stage = 3 /\ Stage' = 5)]_vars
C4_Witness ==
    /\ pc = "aborted"
    /\ n_slides = 2
    /\ Len(slide_data) = 1
    /\ tmp_made = 1

\* C5: a reply that lacks '{' or lacks '}', and a reply whose text from the
\* first '{' to the last '}' is no JSON document (the last '}' before the
\* first '{' included), makes analyze_slides return an empty list: the run
\* does not abort and the reply stays the last call.
C5_BadReplyGivesEmptyList ==
    served[1] \in {"no_brace", "undecodable"}
    => /\ pc \in {"parse", "report", "done"}
       /\ calls[Len(calls)] = "reply"
       /\ AnalyzeReturned => inconsistencies = EmptyList
C5_Witness ==
    /\ pc = "done"
    /\ served[1] = "undecodable"
    /\ response_text = <<"}", "{">>
    /\ Len(calls) = 1

\* C6: a reply whose text from the first '{' to the last '}' is a JSON object
\* makes analyze_slides return that object's inconsistencies array, the same
\* records in the same order, malformed ones included, and the empty list
\* when the field is absent, whatever prose surrounds the object.
C6_ReturnsTheArray ==
    (AnalyzeReturned /\ served[1] \in {"list", "no_field"})
    => inconsistencies = served[2]
C6_Witness ==
    /\ pc = "report"
    /\ served[1] = "list"
    /\ response_text[1] = "Here"
    /\ response_text[Len(response_text)] = "Thanks"
    /\ inconsistencies = Arr(<<Finding2, Num, Finding2>>)

\* C7: when extract_pptx_content returns for a deck of N slides, the keys of
\* the mapping are 1..N in slide order, and a slide that gave zero fragments
\* is mapped to the empty string.
C7_OneEntryPerSlide ==
    ExtractReturned =>
        /\ Keys(slide_data) = [k \in 1..n_slides |-> k]
        /\ \A k \in 1..Len(log) :
            (log[k][2] = "Extracted elements from slide" /\ log[k][3][1] = 0)
            => /\ HasKey(slide_data, log[k][3][2])
               /\ slide_data[DictGet(slide_data, log[k][3][2])][2] = <<>>
C7_Witness ==
    /\ pc = "analyze"
    /\ n_slides = 2
    /\ slide_data[1][2] = <<>>
    /\ slide_data[2][2] # <<>>

\* C8: every temporary image file is deleted before the processing of its
\* shape ends, on every exit path, so none exists when extract_pptx_content
\* has returned or raised.
C8_NoTempFileLeft ==
    pc \notin {"save", "ocr", "finally"} => tmp_files = {}

OcrWarnings == Count([k \in 1..Len(log) |-> log[k][2]], "OCR error on slide")

\* C9: an OCR failure is logged and nothing else: the fragments collected so
\* far stay, no IMAGE fragment is added, the file is unlinked and the loop
\* goes on with the next shape of the same slide; extraction is aborted only
\* by a failure to open the deck or to save a picture, and when it returns
\* after OCR failures the mapping still has an entry for every slide.
C9_OcrFailureIsLocal ==
    /\ [][(pc = "ocr" /\ OcrWarnings' > OcrWarnings)
            => /\ pc' = "finally"
               /\ content' = content
               /\ slide_data' = slide_data
               /\ i' = i]_vars
    /\ [][pc = "ocr" => pc' = "finally"]_vars
    /\ [][pc = "finally" => pc' = "shapes" /\ content' = content /\ i' = i]_vars
    /\ [][pc' = "aborted" => pc \in {"open", "save"}]_vars
    /\ []((ExtractReturned /\ OcrWarnings > 0)
            => Keys(slide_data) = [k \in 1..n_slides |-> k])
C9_Witness ==
    /\ pc = "analyze"
    /\ n_slides = 2
    /\ \E k \in 1..Len(log) : log[k] = <<"WARNING", "OCR error on slide", <<1>>>>
    /\ slide_data[1][2] = <<"TITLE: ", "t", "\n", "x", " | ", "y">>
    /\ slide_data[2][2] = <<>>

\* C10: there are as many sleeps as rate-limit failures; after rate-limit
\* errors on all 3 attempts the code has slept 3 times, 10, 20 and 40 seconds
\* plus jitter, and the third sleep is followed by the exhaustion log and the
\* empty result, not by a call.
C10_SleepPerRateLimit ==
    /\ Len(sleeps) = Count(calls, "rate_limit")
    /\ (AnalyzeReturned /\ calls = <<"rate_limit", "rate_limit", "rate_limit">>)
        => /\ Len(sleeps) = 3
           /\ sleeps[1] - 10 \in 0..5
           /\ sleeps[2] - 20 \in 0..5
           /\ sleeps[3] - 40 \in 0..5
           /\ inconsistencies = EmptyList
           /\ \E k \in 2..Len(log) :
                /\ log[k] = <<"ERROR", "API call failed after 3 attempts", <<>>>>
                /\ log[k - 1] = <<"WARNING", "API quota exceeded", <<sleeps[3]>>>>
C10_Witness ==
    /\ pc = "report"
    /\ calls = <<"rate_limit", "rate_limit", "rate_limit">>
    /\ sleeps = <<10, 25, 42>>
====
